---- MODULE Spec2Model ----
(***************************************************************************)
(* confantic: schema-driven default synthesis (lib.get_default,            *)
(* lib.get_field_default, lib.get_model_default), type rendering           *)
(* (lib.render_type_name) and validation-error formatting                  *)
(* (editor.Editor.format_validation_errors).                               *)
(*                                                                         *)
(* Python objects are records of one shape each, so that any two of them   *)
(* can be compared: a value is [k, items], a type annotation is            *)
(* [tag, name, args, origin, bound, fields, lits, ctor, style].  Text is a *)
(* sequence of string tokens; concatenation is \o.                         *)
(* The behaviour of typing objects (__name__, str(), calling an alias)     *)
(* follows CPython 3.10 - 3.13.                                            *)
(***************************************************************************)
EXTENDS Naturals, Sequences, FiniteSets, TLC

VARIABLES pc, annotation, model, ve, ret, text

vars == <<pc, annotation, model, ve, ret, text>>

\* ------------------------------------------------------------------ bounds
\* members of a union, type arguments of an alias, constraints of a TypeVar
MaxArgs == 3
\* fields of an enumerated record schema
MaxFields == 2
\* nesting depth of the nested record fixtures
MaxDepth == 2
\* failures in one ValidationError
MaxErrors == 2
\* segments of a failure location
MaxLoc == 2

\* ------------------------------------------------------------------ values
V(k) == [k |-> k, items |-> <<>>]
None == V("None")
PydanticUndefined == V("PydanticUndefined")
inspect_empty == V("inspect._empty")
\* a dict: items is the ordered sequence of [name, value]
Dict(items) == [k |-> "dict", items |-> items]
Item(name, value) == [name |-> name, value |-> value]

\* the outcome of a call: a returned value or a raised exception, with the
\* annotations get_default / build_dict were invoked on, in call order
Ok(v, calls) == [exc |-> "", val |-> v, calls |-> calls]
Raise(e, calls) == [exc |-> e, val |-> None, calls |-> calls]
Traced(a, o) == [o EXCEPT !.calls = <<a>> \o @]

\* ------------------------------------------------------------- annotations
Type(tag, name) ==
    [tag |-> tag, name |-> name, args |-> <<>>, origin |-> <<>>, bound |-> <<>>,
     fields |-> <<>>, lits |-> <<>>, ctor |-> "", style |-> ""]
\* a class; ctor is what calling it with no argument does: "ok", or the
\* exception it raises
Class(name, ctor) == [Type("class", name) EXCEPT !.ctor = ctor]
\* a BaseModel subclass
Model(name, fields) == [Type("model", name) EXCEPT !.fields = fields]
FieldInfo(name, ann, default) == [name |-> name, annotation |-> ann, default |-> default]
TypeAdapter(t) == [Type("adapter", "TypeAdapter") EXCEPT !.args = <<t>>]
Literal(lits) == [Type("literal", "Literal") EXCEPT !.lits = lits]
\* typing.Union[...] (style "typing") or X | Y (style "builtin"); Python keeps
\* the members flat, distinct and in declared order
Union(members, style) == [Type("union", "Union") EXCEPT !.args = members, !.style = style]
TypeVar(name, constraints, bound) ==
    [Type("typevar", name) EXCEPT !.args = constraints, !.bound = bound]
\* typing.List[int] (style "typing") or list[int] (style "builtin")
Alias(origin, args, style) ==
    [Type("alias", origin.name) EXCEPT !.args = args, !.origin = <<origin>>, !.style = style]
\* the object None used where an annotation is expected
NoneValue == Type("None", "None")

str == Class("str", "ok")
int == Class("int", "ok")
bool == Class("bool", "ok")
list == Class("list", "ok")
dict == Class("dict", "ok")
tuple == Class("tuple", "ok")
NoneType == Class("NoneType", "ok")
\* classes of the user's module: constructible, needing an argument
\* (TypeError), rejecting construction for another reason (ValueError), and
\* a generic class whose constructor needs an argument
Custom == Class("Custom", "ok")
NeedsArg == Class("NeedsArg", "TypeError")
Strict == Class("Strict", "ValueError")
Box == Class("Box", "TypeError")

Builtins == {"str", "int", "bool", "list", "dict", "tuple", "NoneType"}

\* the value a zero-argument call of a class returns
Zero(name) ==
    CASE name = "str" -> V("''")
      [] name = "int" -> V("0")
      [] name = "bool" -> V("False")
      [] name = "list" -> V("[]")
      [] name = "dict" -> Dict(<<>>)
      [] name = "tuple" -> V("()")
      [] name = "NoneType" -> None
      [] name = "Custom" -> V("Custom()")
      [] OTHER -> V("object()")

\* annotation(): a class runs its constructor; a typing alias of a builtin
\* ("Type List cannot be instantiated") and None ("not callable") raise
\* TypeError; any other alias calls its origin
RECURSIVE Call(_)
Call(tp) ==
    CASE tp.tag = "class" ->
            IF tp.ctor = "ok" THEN Ok(Zero(tp.name), <<>>) ELSE Raise(tp.ctor, <<>>)
      [] tp.tag = "alias" ->
            IF tp.style = "typing" /\ tp.origin[1].name \in Builtins
            THEN Raise("TypeError", <<>>)
            ELSE Call(tp.origin[1])
      [] OTHER -> Raise("TypeError", <<>>)

\* typing.get_origin / typing.get_args
get_origin(tp) == IF tp.tag = "alias" THEN tp.origin[1] ELSE NoneValue
get_args(tp) == IF tp.tag \in {"alias", "union"} THEN tp.args ELSE <<>>
\* typing_inspect.get_bound: None when the TypeVar has no bound
get_bound(tp) == IF tp.bound = <<>> THEN NoneValue ELSE tp.bound[1]
get_constraints(tp) == tp.args
get_literal_values(tp) == tp.lits

is_literal_type(tp) == tp.tag = "literal"
is_typevar(tp) == tp.tag = "typevar"
is_union_type(tp) == tp.tag = "union"
is_optional_type_noUnion(tp) == tp = NoneType
is_optional_type(tp) ==
    \/ tp = NoneType
    \/ /\ is_union_type(tp)
       /\ \E i \in 1..Len(tp.args) : tp.args[i] = NoneType
is_tuple_type(tp) == tp.tag = "alias" /\ tp.origin[1].name = "tuple"
is_generic_type(tp) == tp.tag = "alias" /\ tp.origin[1].name # "tuple"
isinstance_TypeAdapter(tp) == tp.tag = "adapter"
try_issubclass_BaseModel(tp) == tp.tag = "model"
try_issubclass_NoneType(tp) == tp = NoneType

\* ------------------------------------------------------- default synthesis
RECURSIVE get_default(_)
RECURSIVE get_model_default(_)
RECURSIVE build_dict(_)
RECURSIVE constraints_loop(_, _)
RECURSIVE union_loop(_, _)
RECURSIVE build_fields(_, _, _)

\* Python truthiness of the values of this model
Falsy(v) == v \in {None, V("''"), V("0"), V("False"), V("[]"), V("()"), Dict(<<>>)}

\* the loop over the constraints of a TypeVar: the first default that is
\* not None; an exception of a member propagates
constraints_loop(args, calls) ==
    IF args = <<>> THEN Ok(None, calls)
    ELSE LET default == get_default(Head(args)) IN
         IF default.exc # "" THEN Raise(default.exc, calls \o default.calls)
         ELSE IF default.val # None THEN Ok(default.val, calls \o default.calls)
         ELSE constraints_loop(Tail(args), calls \o default.calls)

\* the same loop written with "if default:" instead of "is not None"
union_loop_truthy(args, calls) ==
    IF args = <<>> THEN Ok(None, calls)
    ELSE LET default == get_default(Head(args)) IN
         IF default.exc # "" THEN Raise(default.exc, calls \o default.calls)
         ELSE IF ~Falsy(default.val) THEN Ok(default.val, calls \o default.calls)
         ELSE union_loop(Tail(args), calls \o default.calls)

\* the loop over the members of a union, and the return None after it
union_loop(args, calls) ==
    IF args = <<>> THEN Ok(None, calls)
    ELSE LET default == get_default(Head(args)) IN
         IF default.exc # "" THEN Raise(default.exc, calls \o default.calls)
         ELSE IF default.val # None THEN Ok(default.val, calls \o default.calls)
         ELSE union_loop(Tail(args), calls \o default.calls)

\* try: return annotation()  except TypeError: retry with the origin
construct(ann) ==
    LET made == Call(ann) IN
    IF made.exc = "" THEN made
    ELSE IF made.exc = "TypeError"
         THEN LET origin == get_origin(ann) IN
              IF origin # NoneValue THEN get_default(origin) ELSE Ok(None, <<>>)
         ELSE made

\* get_default with the Optional test left to the union loop
get_default_optional_late(ann) ==
    Traced(ann,
        IF try_issubclass_BaseModel(ann) \/ isinstance_TypeAdapter(ann)
        THEN get_model_default(ann)
        ELSE IF is_literal_type(ann)
        THEN (IF get_literal_values(ann) # <<>>
              THEN Ok(get_literal_values(ann)[1], <<>>) ELSE Ok(None, <<>>))
        ELSE IF is_optional_type_noUnion(ann) THEN Ok(None, <<>>)
        ELSE IF is_typevar(ann)
        THEN LET found == constraints_loop(get_constraints(ann), <<>>) IN
             IF found.exc # "" \/ found.val # None THEN found
             ELSE LET b == get_default(get_bound(ann)) IN
                  [b EXCEPT !.calls = found.calls \o @]
        ELSE IF is_union_type(ann) THEN union_loop(get_args(ann), <<>>)
        ELSE construct(ann))

get_default(ann) ==
    Traced(ann,
        IF try_issubclass_BaseModel(ann) \/ isinstance_TypeAdapter(ann)
        THEN get_model_default(ann)
        ELSE IF is_literal_type(ann)
        THEN (IF get_literal_values(ann) # <<>>
              THEN Ok(get_literal_values(ann)[1], <<>>) ELSE Ok(None, <<>>))
        ELSE IF is_optional_type(ann) THEN Ok(None, <<>>)
        ELSE IF is_typevar(ann)
        THEN LET found == constraints_loop(get_constraints(ann), <<>>) IN
             IF found.exc # "" \/ found.val # None THEN found
             ELSE LET b == get_default(get_bound(ann)) IN
                  [b EXCEPT !.calls = found.calls \o @]
        ELSE IF is_union_type(ann) THEN union_loop(get_args(ann), <<>>)
        ELSE construct(ann))

get_field_default(field) ==
    LET val == field.default IN
    IF val \notin {inspect_empty, PydanticUndefined} THEN Ok(val, <<>>)
    ELSE IF field.annotation = NoneValue THEN Ok(None, <<>>)
    ELSE get_default(field.annotation)

\* the body of the try of build_dict, without its except clause
field_entry_uncaught(field) ==
    IF try_issubclass_BaseModel(field.annotation)
    THEN build_dict(field.annotation)
    ELSE get_field_default(field)

\* one iteration of the loop of build_dict: the try and its bare except
field_entry(field) ==
    LET o == IF try_issubclass_BaseModel(field.annotation)
             THEN build_dict(field.annotation)
             ELSE get_field_default(field)
    IN IF o.exc # "" THEN Ok(None, o.calls) ELSE o

\* for name, field in model.model_fields.items(): result[name] = ...
build_fields(fields, result, calls) ==
    IF fields = <<>> THEN Ok(Dict(result), calls)
    ELSE LET e == field_entry(Head(fields)) IN
         IF e.exc # "" THEN Raise(e.exc, calls \o e.calls)
         ELSE build_fields(Tail(fields),
                           Append(result, Item(Head(fields).name, e.val)),
                           calls \o e.calls)

\* build_dict storing each entry in front of the ones before it
build_dict_prepend(m) ==
    Traced(m,
        IF isinstance_TypeAdapter(m) THEN get_default(m.args[1])
        ELSE LET o == build_fields(m.fields, <<>>, <<>>) IN
             [o EXCEPT !.val.items =
                 [i \in 1..Len(o.val.items) |-> o.val.items[Len(o.val.items) + 1 - i]]])

build_dict(m) ==
    Traced(m,
        IF isinstance_TypeAdapter(m) THEN get_default(m.args[1])
        ELSE build_fields(m.fields, <<>>, <<>>))

get_model_default(model_class) == build_dict(model_class)

\* ------------------------------------------------------------ type renderer
RECURSIVE Join(_, _)
\* sep.join(parts), each part a token sequence
Join(parts, sep) ==
    IF parts = <<>> THEN <<>>
    ELSE IF Len(parts) = 1 THEN parts[1]
    ELSE parts[1] \o <<sep>> \o Join(Tail(parts), sep)

\* repr(v) of a literal value
repr(v) == <<v.k>>

has_name(tp) == tp.tag \in {"class", "model", "typevar"}

RECURSIVE render_type_name(_)
render_type_name(typ) ==
    IF try_issubclass_BaseModel(typ) THEN <<typ.name>>
    ELSE IF isinstance_TypeAdapter(typ) THEN render_type_name(typ.args[1])
    ELSE IF is_literal_type(typ)
    THEN Join([i \in 1..Len(get_literal_values(typ)) |-> repr(get_literal_values(typ)[i])], ", ")
    ELSE IF is_tuple_type(typ)
    THEN <<"(">> \o Join([i \in 1..Len(get_args(typ)) |-> render_type_name(get_args(typ)[i])], ", ")
                 \o <<")">>
    ELSE IF is_optional_type(typ) /\ get_args(typ) # <<>>
    THEN LET args == get_args(typ)
             non_none == IF args[2] = NoneType THEN args[1] ELSE args[2]
         IN render_type_name(non_none) \o <<"?">>
    ELSE IF is_union_type(typ)
    THEN Join([i \in 1..Len(get_args(typ)) |-> render_type_name(get_args(typ)[i])], " | ")
    ELSE IF is_generic_type(typ)
    THEN LET args == get_args(typ)
             origin == get_origin(typ)
         IN IF args # <<>>
            THEN render_type_name(origin) \o <<"[">>
                 \o Join([i \in 1..Len(args) |-> render_type_name(args[i])], ", ") \o <<"]">>
            ELSE render_type_name(origin)
    ELSE IF try_issubclass_NoneType(typ) THEN <<"None">>
    ELSE IF get_origin(typ) # NoneValue THEN render_type_name(get_origin(typ))
    ELSE IF has_name(typ) THEN <<typ.name>>
    ELSE <<"Unknown">>

\* ------------------------------------------------ validation error display
\* a location segment: a field name or a sequence index
FieldSeg(s) == [kind |-> "str", s |-> s, n |-> 0]
IndexSeg(n) == [kind |-> "int", s |-> "", n |-> n]
Digits == <<"0", "1", "2", "3">>
\* str(x) of a location segment
seg_str(x) == IF x.kind = "str" THEN x.s ELSE Digits[x.n + 1]

Failure(loc, msg, typ) == [loc |-> loc, msg |-> msg, type |-> typ]

\* the name typing gives a special alias (typing.List[int].__name__)
TypingName(name) ==
    CASE name = "list" -> "List"
      [] name = "dict" -> "Dict"
      [] name = "tuple" -> "Tuple"
      [] OTHER -> name

RECURSIVE type_repr(_)
\* repr of a type as str() of an X | Y union prints it
type_repr(tp) ==
    CASE tp = NoneType -> <<"None">>
      [] tp.tag = "class" /\ tp.name \in Builtins -> <<tp.name>>
      [] tp.tag \in {"class", "model"} -> <<"user_module.", tp.name>>
      [] tp.tag = "alias" ->
            <<tp.name, "[">>
            \o Join([i \in 1..Len(tp.args) |-> type_repr(tp.args[i])], ", ") \o <<"]">>
      [] tp.tag = "union" -> Join([i \in 1..Len(tp.args) |-> type_repr(tp.args[i])], " | ")
      [] OTHER -> <<tp.name>>

\* expected_type.__name__ if hasattr(expected_type, '__name__') else expected_type
name_or_str(expected_type) ==
    CASE has_name(expected_type) -> <<expected_type.name>>
      [] expected_type.tag = "alias" ->
            IF expected_type.style = "typing"
            THEN <<TypingName(expected_type.name)>> ELSE <<expected_type.name>>
      [] expected_type.tag = "union" /\ expected_type.style = "typing" ->
            IF Len(expected_type.args) = 2 /\ is_optional_type(expected_type)
            THEN <<"Optional">> ELSE <<"Union">>
      [] expected_type.tag = "literal" -> <<"Literal">>
      [] OTHER -> type_repr(expected_type)

\* getattr(self.model, "__fields__", {})
model_fields(m) == IF m.tag = "model" THEN m.fields ELSE <<>>
\* model_fields.get(key): the fields named key (none or one)
fields_get(fields, key) ==
    SelectSeq(fields, LAMBDA f : key.kind = "str" /\ f.name = key.s)

\* the body of the loop over ve.errors(): the line of one failure
format_line(m, err) ==
    LET loc == err.loc
        loc_str == Join([i \in 1..Len(loc) |-> <<seg_str(loc[i])>>], ".")
        typ == err.type
        found == IF typ = "missing" /\ loc # <<>>
                 THEN fields_get(model_fields(m), loc[1]) ELSE <<>>
        msg == IF found # <<>>
               THEN <<err.msg, " (expected type: ">> \o name_or_str(found[1].annotation) \o <<")">>
               ELSE <<err.msg>>
    IN <<"- ">> \o loc_str \o <<": ">> \o msg \o <<" [", typ, "]">>

\* format_validation_errors keeping only the failures that name a location
format_validation_errors_located(m, errors) ==
    LET kept == SelectSeq(errors, LAMBDA e : e.loc # <<>>) IN
    Join([i \in 1..Len(kept) |-> format_line(m, kept[i])], "\n")

format_validation_errors(m, errors) ==
    Join([i \in 1..Len(errors) |-> format_line(m, errors[i])], "\n")

\* ------------------------------------------------------------------ inputs
\* sequences over S of length lo..hi
SeqsOf(S, lo, hi) == UNION {[1..n -> S] : n \in lo..hi}
Distinct(s) == \A i, j \in 1..Len(s) : i # j => s[i] # s[j]

\* record schemas used as nested types
Inner ==
    Model("Inner", <<FieldInfo("x", str, PydanticUndefined), FieldInfo("y", int, V("7"))>>)
Required ==
    Model("Required", <<FieldInfo("x", int, PydanticUndefined),
                        FieldInfo("y", str, PydanticUndefined)>>)
LevelNames == <<"Outer1", "Outer2", "Outer3", "Outer4">>
RECURSIVE Nested(_)
\* a record nested d levels above Inner, each level with a field whose
\* construction fails
Nested(d) ==
    IF d = 0 THEN Inner
    ELSE Model(LevelNames[d],
               <<FieldInfo("outer", str, PydanticUndefined),
                 FieldInfo("bad", Strict, PydanticUndefined),
                 FieldInfo("inner", Nested(d - 1), PydanticUndefined)>>)

Classes == {str, int, bool, list, dict, tuple, NoneType, Custom, NeedsArg, Strict, Box}
Literals == {Literal(<<>>), Literal(<<V("'x'"), V("'y'")>>)}
Fixtures == {Required} \cup {Nested(d) : d \in 0..MaxDepth}

ListOfInt == Alias(list, <<int>>, "typing")
Members == {str, int, NoneType, NeedsArg, Strict, Inner, Required, Literal(<<>>), ListOfInt}
\* X | Y exists only between classes; anything else gives a typing.Union
Unions ==
    {Union(s, "typing") : s \in {m \in SeqsOf(Members, 2, MaxArgs) : Distinct(m)}}
    \cup {Union(s, "builtin") :
            s \in {m \in SeqsOf({str, int, NoneType, Inner}, 2, MaxArgs) : Distinct(m)}}
TypeArgs == {int, str, Inner}
Aliases ==
    {Alias(o, a, "typing") : o \in {list, dict, tuple, Box}, a \in SeqsOf(TypeArgs, 1, MaxArgs)}
    \cup {Alias(o, a, "builtin") : o \in {list, dict, tuple}, a \in SeqsOf(TypeArgs, 1, MaxArgs)}
\* a TypeVar has a bound or at least two constraints, never both
TypeVars ==
    {TypeVar("T", <<>>, b) : b \in {<<>>, <<str>>, <<NeedsArg>>, <<Strict>>}}
    \cup {TypeVar("T", c, <<>>) : c \in SeqsOf({NeedsArg, str, int, Strict}, 2, MaxArgs)}
Adapters ==
    {TypeAdapter(t) : t \in {int, Strict, NeedsArg, Inner, ListOfInt,
                             Alias(list, <<Inner>>, "typing"),
                             Union(<<Inner, Required>>, "typing"),
                             Union(<<Required, Inner>>, "typing"),
                             Union(<<int, NoneType>>, "typing")}}

Annotations ==
    Classes \cup {NoneValue} \cup Literals \cup Fixtures \cup Unions \cup Aliases
    \cup TypeVars \cup Adapters

\* the (annotation, declared default) choices of a field of an enumerated schema
LeafOptions ==
    {<<str, PydanticUndefined>>, <<int, V("42")>>, <<int, inspect_empty>>,
     <<Strict, PydanticUndefined>>, <<NeedsArg, PydanticUndefined>>,
     <<NoneValue, PydanticUndefined>>,
     <<Union(<<str, NoneType>>, "builtin"), PydanticUndefined>>,
     <<Union(<<int, NoneType>>, "typing"), V("10")>>,
     <<Union(<<Required, NoneType>>, "typing"), PydanticUndefined>>,
     <<Union(<<str, int>>, "builtin"), PydanticUndefined>>,
     <<ListOfInt, None>>}
NestedOptions ==
    {<<Nested(d), dflt>> : d \in 0..(MaxDepth - 1),
                           dflt \in {PydanticUndefined, V("Inner(x='a')")}}
FieldNames == <<"a", "b", "c", "d">>
Schemas ==
    {Model("Root", [i \in 1..Len(s) |-> FieldInfo(FieldNames[i], s[i][1], s[i][2])]) :
        s \in SeqsOf(LeafOptions \cup NestedOptions, 1, MaxFields)}
Models == Schemas \cup Fixtures \cup Adapters

\* the editor's schema and the failures the validation engine reports on it
Config ==
    Model("Config", <<FieldInfo("a", int, PydanticUndefined),
                      FieldInfo("b", Union(<<int, NoneType>>, "typing"), PydanticUndefined),
                      FieldInfo("c", Alias(list, <<int>>, "builtin"), PydanticUndefined),
                      FieldInfo("d", Inner, PydanticUndefined)>>)
EditorModels == {Config, TypeAdapter(Alias(list, <<Inner>>, "builtin"))}
FirstSegs == {FieldSeg("a"), FieldSeg("b"), FieldSeg("c"), FieldSeg("d"), FieldSeg("zz"),
              IndexSeg(0)}
\* a location: nothing, or a first segment followed by a field name or an
\* index and then by field names
Locs ==
    {<<>>} \cup {<<f>> : f \in FirstSegs}
    \cup {<<f, n>> \o [i \in 1..k |-> FieldSeg("x")] :
            f \in FirstSegs, n \in {FieldSeg("x"), IndexSeg(1)}, k \in 0..(MaxLoc - 2)}
Failures ==
    {Failure(l, "Field required", "missing") : l \in Locs}
    \cup {Failure(l, "Input should be a valid integer", "int_parsing") :
            l \in {<<>>, <<FieldSeg("a")>>, <<FieldSeg("c"), IndexSeg(1)>>}}
ErrorLists == SeqsOf(Failures, 1, MaxErrors)

\* --------------------------------------------------------------- behaviour
Init ==
    /\ pc = "idle"
    /\ annotation = NoneValue
    /\ model = NoneValue
    /\ ve = <<>>
    /\ ret = Ok(None, <<>>)
    /\ text = <<>>

\* get_default(t)
CallGetDefault ==
    /\ pc = "idle"
    /\ \E t \in Annotations :
          /\ annotation' = t
          /\ ret' = get_default(t)
    /\ pc' = "get_default"
    /\ UNCHANGED <<model, ve, text>>

\* get_model_default(m), as Editor.on_mount calls it for a new file
CallGetModelDefault ==
    /\ pc = "idle"
    /\ \E m \in Models :
          /\ model' = m
          /\ ret' = get_model_default(m)
    /\ pc' = "get_model_default"
    /\ UNCHANGED <<annotation, ve, text>>

\* render_type_name(t)
CallRenderTypeName ==
    /\ pc = "idle"
    /\ \E t \in Annotations :
          /\ annotation' = t
          /\ text' = render_type_name(t)
    /\ pc' = "render_type_name"
    /\ UNCHANGED <<model, ve, ret>>

\* Editor(m, ...).format_validation_errors(errors)
CallFormatValidationErrors ==
    /\ pc = "idle"
    /\ \E m \in EditorModels, errors \in ErrorLists :
          /\ model' = m
          /\ ve' = errors
          /\ text' = format_validation_errors(m, errors)
    /\ pc' = "format_validation_errors"
    /\ UNCHANGED <<annotation, ret>>

\* one operation is applied to one input; its result is what the claims read
Next ==
    \/ CallGetDefault
    \/ CallGetModelDefault
    \/ CallRenderTypeName
    \/ CallFormatValidationErrors

Spec == Init /\ [][Next]_vars

\* ------------------------------------------------------------------ claims
Undefined == {inspect_empty, PydanticUndefined}
IsRecord(tp) == tp.tag = "model"
\* Optional(T): a union with the None type among its members
IsOptional(tp) == tp.tag = "union" /\ \E i \in 1..Len(tp.args) : tp.args[i] = NoneType
Returned(op) == pc = op
Items == ret.val.items
Without(s, i) == SubSeq(s, 1, i - 1) \o SubSeq(s, i + 1, Len(s))
\* a returned value that is None
IsNone(o) == o.exc = "" /\ o.val = None
SameOutcome(o1, o2) == o1.exc = o2.exc /\ o1.val = o2.val

RECURSIVE SplitLines(_, _)
SplitLines(t, cur) ==
    IF t = <<>> THEN <<cur>>
    ELSE IF Head(t) = "\n" THEN <<cur>> \o SplitLines(Tail(t), <<>>)
    ELSE SplitLines(Tail(t), Append(cur, Head(t)))
\* the lines of a text
Lines(t) == IF t = <<>> THEN <<>> ELSE SplitLines(t, <<>>)
Dotted(loc) == Join([i \in 1..Len(loc) |-> <<seg_str(loc[i])>>], ".")
StartsWith(s, p) == Len(p) <= Len(s) /\ SubSeq(s, 1, Len(p)) = p
EndsWith(s, p) == Len(p) <= Len(s) /\ SubSeq(s, Len(s) - Len(p) + 1, Len(s)) = p
Contains(s, p) == \E i \in 0..(Len(s) - Len(p)) : SubSeq(s, i + 1, i + Len(p)) = p
\* the declared top-level field a "missing" failure resolves to (none or one)
Resolved(e) ==
    IF e.type = "missing" /\ e.loc # <<>>
    THEN SelectSeq(model_fields(model), LAMBDA f : e.loc[1].kind = "str" /\ f.name = e.loc[1].s)
    ELSE <<>>
Plain(e) == <<"- ">> \o Dotted(e.loc) \o <<": ", e.msg, " [", e.type, "]">>
Enriched(e, sig) ==
    <<"- ">> \o Dotted(e.loc) \o <<": ", e.msg, " (expected type: ">> \o sig
    \o <<")", " [", e.type, "]">>

\* C1: every field of a Record that has a declared default gets that default
\* verbatim from get_model_default, whatever the type of the field (a nested
\* Record included).
C1_DeclaredDefaultVerbatim ==
    (Returned("get_model_default") /\ IsRecord(model)) =>
        /\ ret.exc = ""
        /\ Len(Items) = Len(model.fields)
        /\ \A i \in 1..Len(model.fields) :
              model.fields[i].default \notin Undefined
                  => Items[i].value = model.fields[i].default

\* a field whose synthesis raises
FieldFails(f) == ~IsRecord(f.annotation) /\ get_field_default(f).exc # ""

\* C2: when the synthesis of a field of a Record raises, get_model_default
\* still returns every declared field, the failing field is None, every
\* sibling has the value it has in the Record without the failing field, and
\* nothing is raised.
C2_FieldFailureIsolated ==
    (Returned("get_model_default") /\ IsRecord(model)) =>
        /\ ret.exc = ""
        /\ Len(Items) = Len(model.fields)
        /\ \A i \in 1..Len(model.fields) : Items[i].name = model.fields[i].name
        /\ \A i \in 1..Len(model.fields) :
              FieldFails(model.fields[i]) =>
                  /\ Items[i].value = None
                  /\ Without(Items, i)
                       = get_model_default(
                            [model EXCEPT !.fields = Without(model.fields, i)]).val.items

C2_Witness ==
    /\ Returned("get_model_default") /\ IsRecord(model) /\ ret.exc = ""
    /\ \E i, j \in 1..Len(model.fields) :
          /\ i # j
          /\ FieldFails(model.fields[i]) /\ Items[i].value = None
          /\ Items[j].value # None

\* an Opaque type whose zero-argument construction fails
OpaqueFails(tp) == tp.tag \in {"class", "alias"} /\ tp # NoneType /\ Call(tp).exc # ""
OriginDefault(tp) ==
    IF get_origin(tp) # NoneValue THEN get_default(get_origin(tp)).val ELSE None

\* C3: get_default on any type, and get_model_default on an adapter of a
\* non-Record type, never raise; when the construction of an Opaque type
\* fails, for any kind of failure, the result is the default of its generic
\* origin if it has one, and None otherwise.
C3_NeverRaises ==
    /\ Returned("get_default") =>
          /\ ret.exc = ""
          /\ OpaqueFails(annotation) => ret.val = OriginDefault(annotation)
    /\ (Returned("get_model_default") /\ isinstance_TypeAdapter(model)) =>
          /\ ret.exc = ""
          /\ OpaqueFails(model.args[1]) => ret.val = OriginDefault(model.args[1])

\* C4: the default of Optional(T) is None and no default of T is computed
\* (the only call made is the one on the Optional itself), for every T; a
\* Record field of type Optional(T) without a declared default is None, and
\* synthesizing it calls nothing but the Record and the Optional.
C4_OptionalIsNone ==
    /\ (Returned("get_default") /\ IsOptional(annotation)) => ret = Ok(None, <<annotation>>)
    /\ (Returned("get_model_default") /\ IsRecord(model)) =>
          \A i \in 1..Len(model.fields) :
              (IsOptional(model.fields[i].annotation) /\ model.fields[i].default \in Undefined)
                  => /\ ret.exc = ""
                     /\ Items[i].value = None
                     /\ Len(model.fields) = 1
                          => ret.calls = <<model, model.fields[i].annotation>>

C4_Witness ==
    /\ Returned("get_default") /\ IsOptional(annotation)
    /\ \E i \in 1..Len(annotation.args) :
          IsRecord(annotation.args[i])
          /\ \A j \in 1..Len(annotation.args[i].fields) :
                annotation.args[i].fields[j].default \in Undefined
    /\ ret.val = None

\* the members of a union whose default is not a returned None
NotNone(members) == {i \in 1..Len(members) : ~IsNone(get_default(members[i]))}
Min(S) == CHOOSE i \in S : \A j \in S : i <= j

FieldRule(f) ==
    IF f.default \notin Undefined THEN f.default
    ELSE IF f.annotation = NoneValue THEN None
    ELSE LET d == get_default(f.annotation) IN IF d.exc # "" THEN None ELSE d.val

RECURSIVE Conforms(_, _)
\* value is the mapping of Record m: its keys are the declared names in
\* declared order, nested Records map to conforming mappings, at every depth
Conforms(m, value) ==
    /\ value.k = "dict"
    /\ Len(value.items) = Len(m.fields)
    /\ \A i \in 1..Len(m.fields) :
          /\ value.items[i].name = m.fields[i].name
          /\ IF IsRecord(m.fields[i].annotation)
             THEN Conforms(m.fields[i].annotation, value.items[i].value)
             ELSE value.items[i].value = FieldRule(m.fields[i])

\* C6: get_model_default of a Record returns a mapping whose keys are the
\* declared field names in declared order, in which every nested Record field
\* maps to the result of the same synthesis on the nested Record, at every
\* depth, and the other fields follow the per-field default rules.
C6_NestedRecords ==
    (Returned("get_model_default") /\ IsRecord(model)) =>
        /\ ret.exc = ""
        /\ Conforms(model, ret.val)
        /\ \A i \in 1..Len(model.fields) :
              IsRecord(model.fields[i].annotation)
                  => SameOutcome(Ok(Items[i].value, <<>>),
                                 get_model_default(model.fields[i].annotation))

C6_Witness ==
    /\ Returned("get_model_default") /\ IsRecord(model) /\ ret.exc = ""
    /\ \E i \in 1..Len(model.fields) :
          /\ IsRecord(model.fields[i].annotation)
          /\ \E j \in 1..Len(model.fields[i].annotation.fields) :
                /\ IsRecord(model.fields[i].annotation.fields[j].annotation)
                /\ Len(Items[i].value.items[j].value.items) > 1

\* C7: the line of a "missing" failure whose first location segment names a
\* declared top-level field is "- <location>: <message> (expected type: R)
\* [missing]" with R the Type Renderer's signature of the field's type.
C7_EnrichedWithRenderedType ==
    Returned("format_validation_errors") =>
        \A i \in 1..Len(ve) :
            Resolved(ve[i]) # <<>>
                => /\ i <= Len(Lines(text))
                   /\ Lines(text)[i]
                        = Enriched(ve[i], render_type_name(Resolved(ve[i])[1].annotation))

\* C8: format_validation_errors gives one line per failure, in the order
\* received, and line i holds the dotted location, the message and the
\* bracketed kind of failure i, enriched or not.
C8_OneLinePerFailure ==
    Returned("format_validation_errors") =>
        /\ Len(Lines(text)) = Len(ve)
        /\ \A i \in 1..Len(ve) :
              /\ StartsWith(Lines(text)[i], <<"- ">> \o Dotted(ve[i].loc) \o <<": ", ve[i].msg>>)
              /\ EndsWith(Lines(text)[i], <<" [", ve[i].type, "]">>)

C8_Witness ==
    /\ Returned("format_validation_errors")
    /\ Len(ve) > 1 /\ Len(Lines(text)) = Len(ve)
    /\ ve[1].type # "missing" /\ Len(ve[1].loc) > 1
    /\ Contains(Lines(text)[1], <<"1">>)
    /\ Contains(Lines(text)[2], <<" (expected type: ">>)

\* the inner type of an Optional: its members without the None type
InnerOf(tp) ==
    LET rest == SelectSeq(tp.args, LAMBDA a : a # NoneType) IN
    IF Len(rest) = 1 THEN rest[1] ELSE Union(rest, tp.style)

\* C9: render of Optional(inner) is render(inner) followed by "?", wherever
\* the None type stands among the members and whatever inner is (a Union of
\* several members included).
C9_OptionalRendersInner ==
    (Returned("render_type_name") /\ IsOptional(annotation)) =>
        text = render_type_name(InnerOf(annotation)) \o <<"?">>

\* C10: a "missing" failure whose first location segment is not a declared
\* field, or whose location has more than one segment, is emitted as
\* "- <location>: <message> [missing]", without the expected-type suffix.
C10_UnresolvedUnenriched ==
    Returned("format_validation_errors") =>
        \A i \in 1..Len(ve) :
            (ve[i].type = "missing" /\ ve[i].loc # <<>>
                /\ (Resolved(ve[i]) = <<>> \/ Len(ve[i].loc) > 1))
                => /\ i <= Len(Lines(text))
                   /\ Lines(text)[i] = Plain(ve[i])

====
